---- MODULE Spec2Model ----
(***************************************************************************)
(* RedisPoolStore (redis-pool-store/src/lib.rs): the SessionStore adapter  *)
(* that saves, loads and deletes session records in Redis.                 *)
(*                                                                         *)
(* Each caller runs one operation at a time.  An operation builds one      *)
(* command, sends it (the .await of query_async), the backend applies it   *)
(* atomically and replies, and the operation turns the reply into its      *)
(* result.  Callers interleave freely at the await; what follows the await *)
(* touches only the caller's own result, so it is one step with the reply. *)
(*                                                                         *)
(* Integers are scaled: i64 and usize (a 64-bit target, where both have    *)
(* the same width) are UsizeBits wide here, so that "expire as usize"      *)
(* wraps a negative timestamp exactly as the cast does.                    *)
(***************************************************************************)
EXTENDS Integers, Sequences, FiniteSets, TLC

\* ------------------------------------------------------------- bounds
MaxTime == 1
MaxExpiry == 2
NegExpiries == 1
UsizeBits == 4

RECURSIVE Pow2(_)
Pow2(n) == IF n = 0 THEN 1 ELSE 2 * Pow2(n - 1)

\* usize::MAX + 1, and the largest timestamp a signed integer of that width holds
UsizeModulus == Pow2(UsizeBits)
BackendMaxExat == Pow2(UsizeBits - 1) - 1

Callers == {"c1", "c2"}
IdSeq == <<"a", "b">>
Ids == {IdSeq[n] : n \in 1..Len(IdSeq)}
DataSeq == <<"x", "y">>
GoodData == {DataSeq[n] : n \in 1..Len(DataSeq)}
\* a data payload the serialiser refuses
BadData == "unserialisable"
Expiries == (0 - NegExpiries)..MaxExpiry
Times == 0..MaxTime

\* tower_sessions_core::session::Record {id, data, expiry_date}
Records ==
    [id : Ids, data : GoodData, expiry_date : Expiries]
        \cup [id : Ids, data : {BadData}, expiry_date : {MaxExpiry}]
NoRecord == [id |-> "", data |-> "", expiry_date |-> 0]

\* ------------------------------------------------------------- key policy
Prefix == "tower_session:"

KeyNoPrefix(id) == id

\* format!("tower_session:{}", id)
Key(id) == Prefix \o id

SessionKeys == {Prefix \o i : i \in Ids}
\* unrelated data sharing the backend: keys without the prefix
ForeignKeys == Ids \cup {"cache:" \o i : i \in Ids}
Keys == SessionKeys \cup ForeignKeys

\* ------------------------------------------------------------- expiry
\* OffsetDateTime::unix_timestamp(record.expiry_date): whole seconds, i64
unix_timestamp(d) == d

\* expire as usize: two's complement reinterpretation, no check
AsUsize(x) == x % UsizeModulus

\* ------------------------------------------------------------- codec
FixArray3 == 147
NeverUsed == 193

IdByte(id) == CHOOSE n \in 1..Len(IdSeq) : IdSeq[n] = id
DataByte(d) == 10 + (CHOOSE n \in 1..Len(DataSeq) : DataSeq[n] = d)
IntByte(e) == IF e >= 0 THEN e ELSE 256 + e

CanEncode(r) == r.data \in GoodData

\* rmp_serde::to_vec(&record): the record as an array of its three fields
to_vec(r) == <<FixArray3, IdByte(r.id), DataByte(r.data), IntByte(r.expiry_date)>>

ByteInt(b) == IF b < 128 THEN b ELSE b - 256

CanDecode(b) ==
    /\ Len(b) = 4
    /\ b[1] = FixArray3
    /\ b[2] \in 1..Len(IdSeq)
    /\ b[3] \in {10 + n : n \in 1..Len(DataSeq)}
    /\ (b[4] < 128 \/ (b[4] >= 224 /\ b[4] < 256))

\* rmp_serde::from_slice(&data), defined where CanDecode holds
from_slice(b) ==
    [id |-> IdSeq[b[2]], data |-> DataSeq[b[3] - 10], expiry_date |-> ByteInt(b[4])]

\* bytes something else may have put at a session key
ForeignBytes == {<<NeverUsed>>, <<FixArray3, 1>>}

\* ------------------------------------------------------------- errors
ToStoreErrorCatchAll(e) == "Backend"

\* impl From<RedisStoreError> for session_store::Error
ToStoreError(e) ==
    CASE e = "Redis" -> "Backend"
      [] e = "Decode" -> "Decode"
      [] e = "Encode" -> "Encode"

Ok == [kind |-> "Ok", some |-> FALSE, rec |-> NoRecord]
OkSome(r) == [kind |-> "Ok", some |-> TRUE, rec |-> r]
Err(e) == [kind |-> ToStoreError(e), some |-> FALSE, rec |-> NoRecord]
Pending == [kind |-> "Pending", some |-> FALSE, rec |-> NoRecord]

\* ------------------------------------------------------------- commands
NoCmd == [name |-> "", key |-> "", val |-> <<>>, hasExat |-> FALSE, exat |-> 0]

SaveCommandNoExat(r) ==
    [name |-> "SET", key |-> Key(r.id), val |-> to_vec(r), hasExat |-> FALSE, exat |-> 0]

SaveCommandDefaultExpiry(r) ==
    [name |-> "SET", key |-> Key(r.id), val |-> to_vec(r), hasExat |-> TRUE,
     exat |-> AsUsize(MaxExpiry)]

\* redis::cmd("SET").arg(key).arg(bytes).arg("EXAT").arg(expire as usize)
SaveCommand(r) ==
    [name |-> "SET", key |-> Key(r.id), val |-> to_vec(r), hasExat |-> TRUE,
     exat |-> AsUsize(unix_timestamp(r.expiry_date))]

LoadCommandBareKey(id) ==
    [name |-> "GET", key |-> id, val |-> <<>>, hasExat |-> FALSE, exat |-> 0]

\* redis::cmd("GET").arg(key)
LoadCommand(id) ==
    [name |-> "GET", key |-> Key(id), val |-> <<>>, hasExat |-> FALSE, exat |-> 0]

\* redis::cmd("DEL").arg(key)
DeleteCommand(id) ==
    [name |-> "DEL", key |-> Key(id), val |-> <<>>, hasExat |-> FALSE, exat |-> 0]

SaveStartUnwrapOrDefault(r) ==
    IF CanEncode(r)
    THEN [issued |-> TRUE, cmd |-> SaveCommand(r)]
    ELSE [issued |-> TRUE,
          cmd |-> [name |-> "SET", key |-> Key(r.id), val |-> <<>>, hasExat |-> TRUE,
                   exat |-> AsUsize(unix_timestamp(r.expiry_date))]]

\* save up to the await: to_vec(..).map_err(Encode)? returns before anything is sent
SaveStart(r) ==
    IF CanEncode(r)
    THEN [issued |-> TRUE, cmd |-> SaveCommand(r)]
    ELSE [issued |-> FALSE, cmd |-> NoCmd]

\* ------------------------------------------------------------- backend
Absent == [present |-> FALSE, val |-> <<>>, hasExp |-> FALSE, exat |-> 0]

NoReply == [ok |-> FALSE, some |-> FALSE, val |-> <<>>, count |-> 0]
ErrReply == [ok |-> FALSE, some |-> FALSE, val |-> <<>>, count |-> 0]
OkReply == [ok |-> TRUE, some |-> FALSE, val |-> <<>>, count |-> 0]

\* what the server does with an EXAT argument: it reads a signed integer and
\* refuses one that is out of range or not positive
ExatAccepted(c) == (~c.hasExat) \/ (c.exat >= 1 /\ c.exat <= BackendMaxExat)

\* one command applied atomically at time t: the store after it and the reply
Exec(st, c, t) ==
    CASE c.name = "SET" ->
           IF ~ExatAccepted(c)
           THEN [store |-> st, reply |-> ErrReply]
           ELSE IF c.hasExat /\ c.exat <= t
           THEN [store |-> [st EXCEPT ![c.key] = Absent], reply |-> OkReply]
           ELSE [store |-> [st EXCEPT ![c.key] =
                              [present |-> TRUE, val |-> c.val,
                               hasExp |-> c.hasExat, exat |-> c.exat]],
                 reply |-> OkReply]
      [] c.name = "GET" ->
           [store |-> st,
            reply |-> [ok |-> TRUE, some |-> st[c.key].present,
                       val |-> st[c.key].val, count |-> 0]]
      [] c.name = "DEL" ->
           [store |-> [st EXCEPT ![c.key] = Absent],
            reply |-> [ok |-> TRUE, some |-> FALSE, val |-> <<>>,
                       count |-> IF st[c.key].present THEN 1 ELSE 0]]

\* keys whose expiration instant has been reached at time t are gone
Expire(st, t) ==
    [k \in Keys |-> IF st[k].present /\ st[k].hasExp /\ st[k].exat <= t
                    THEN Absent ELSE st[k]]

ForeignInit == [k \in Keys |->
    IF k \in ForeignKeys
    THEN [present |-> TRUE, val |-> <<NeverUsed>>, hasExp |-> FALSE, exat |-> 0]
    ELSE Absent]

\* ------------------------------------------------------------- results
\* .await.map_err(RedisStoreError::Redis)?; Ok(())
SaveReturn(rp) == IF rp.ok THEN Ok ELSE Err("Redis")

LoadReturnDecodeAsNone(rp) ==
    IF ~rp.ok THEN Err("Redis")
    ELSE IF rp.some
    THEN IF CanDecode(rp.val) THEN OkSome(from_slice(rp.val)) ELSE Ok
    ELSE Ok

LoadReturnNoneAsError(rp) ==
    IF ~rp.ok THEN Err("Redis")
    ELSE IF CanDecode(rp.val) THEN OkSome(from_slice(rp.val)) ELSE Err("Decode")

\* the reply as Option<Vec<u8>>, then from_slice(..).map_err(Decode)? or Ok(None)
LoadReturn(rp) ==
    IF ~rp.ok THEN Err("Redis")
    ELSE IF rp.some
    THEN IF CanDecode(rp.val) THEN OkSome(from_slice(rp.val)) ELSE Err("Decode")
    ELSE Ok

DeleteReturnCountChecked(rp) == IF rp.ok /\ rp.count > 0 THEN Ok ELSE Err("Redis")

\* .await.map_err(RedisStoreError::Redis)?; Ok(()): the count of deleted keys is dropped
DeleteReturn(rp) == IF rp.ok THEN Ok ELSE Err("Redis")

\* ------------------------------------------------------------- state
VARIABLES
    store,   \* the backend: key -> entry
    now,     \* the backend's clock, unix seconds
    pc,      \* caller -> "idle" | "sent" | "done"
    req,     \* caller -> the call it is in: name, id, record
    cmd,     \* caller -> the command it sent
    ncmd,    \* caller -> commands sent during the call
    reply,   \* caller -> the backend's reply
    result,  \* caller -> what the call returned
    hist,    \* id -> what last happened to the id's record at the backend
    seen     \* caller -> hist of its id when its command was applied

vars == <<store, now, pc, req, cmd, ncmd, reply, result, hist, seen>>

NoReq == [name |-> "", id |-> "", rec |-> NoRecord]
NoHist == [st |-> "never", rec |-> NoRecord, exat |-> 0]

Init ==
    /\ store = ForeignInit
    /\ now = 0
    /\ pc = [p \in Callers |-> "idle"]
    /\ req = [p \in Callers |-> NoReq]
    /\ cmd = [p \in Callers |-> NoCmd]
    /\ ncmd = [p \in Callers |-> 0]
    /\ reply = [p \in Callers |-> NoReply]
    /\ result = [p \in Callers |-> Pending]
    /\ hist = [i \in Ids |-> NoHist]
    /\ seen = [p \in Callers |-> NoHist]

\* save(&self, record) up to the await
SaveCall(p, r) ==
    /\ pc[p] = "idle"
    /\ req' = [req EXCEPT ![p] = [name |-> "save", id |-> r.id, rec |-> r]]
    /\ IF SaveStart(r).issued
       THEN /\ cmd' = [cmd EXCEPT ![p] = SaveStart(r).cmd]
            /\ ncmd' = [ncmd EXCEPT ![p] = 1]
            /\ pc' = [pc EXCEPT ![p] = "sent"]
            /\ UNCHANGED result
       ELSE /\ result' = [result EXCEPT ![p] = Err("Encode")]
            /\ pc' = [pc EXCEPT ![p] = "done"]
            /\ UNCHANGED <<cmd, ncmd>>
    /\ UNCHANGED <<store, now, reply, hist, seen>>

\* load(&self, session_id) up to the await
LoadCall(p, i) ==
    /\ pc[p] = "idle"
    /\ req' = [req EXCEPT ![p] = [name |-> "load", id |-> i, rec |-> NoRecord]]
    /\ cmd' = [cmd EXCEPT ![p] = LoadCommand(i)]
    /\ ncmd' = [ncmd EXCEPT ![p] = 1]
    /\ pc' = [pc EXCEPT ![p] = "sent"]
    /\ UNCHANGED <<store, now, reply, result, hist, seen>>

\* delete(&self, session_id) up to the await
DeleteCall(p, i) ==
    /\ pc[p] = "idle"
    /\ req' = [req EXCEPT ![p] = [name |-> "delete", id |-> i, rec |-> NoRecord]]
    /\ cmd' = [cmd EXCEPT ![p] = DeleteCommand(i)]
    /\ ncmd' = [ncmd EXCEPT ![p] = 1]
    /\ pc' = [pc EXCEPT ![p] = "sent"]
    /\ UNCHANGED <<store, now, reply, result, hist, seen>>

\* what the applied command of caller p means for the record of its id
HistAfter(p, e) ==
    LET c == cmd[p] IN
    CASE c.name = "SET" ->
           IF ~e.reply.ok THEN hist[req[p].id]
           ELSE IF c.hasExat /\ c.exat <= now
           THEN [st |-> "expired", rec |-> NoRecord, exat |-> 0]
           ELSE [st |-> "live", rec |-> req[p].rec, exat |-> c.exat]
      [] c.name = "DEL" -> [st |-> "deleted", rec |-> NoRecord, exat |-> 0]
      [] c.name = "GET" -> hist[req[p].id]

\* what caller p's command met at the backend when the reply rp came from it: the
\* status of its id, and for a GET the record that was live
SeenBy(p, rp) ==
    LET h == hist[req[p].id] IN
    IF ~rp.ok THEN NoHist
    ELSE CASE cmd[p].name = "GET" -> h
           [] cmd[p].name = "DEL" -> [st |-> h.st, rec |-> NoRecord, exat |-> 0]
           [] cmd[p].name = "SET" -> NoHist

\* the await resumes with reply rp: the rest of save, load or delete
Resume(p, rp) ==
    /\ reply' = [reply EXCEPT ![p] = rp]
    /\ result' = [result EXCEPT ![p] =
          CASE req[p].name = "save" -> SaveReturn(rp)
            [] req[p].name = "load" -> LoadReturn(rp)
            [] req[p].name = "delete" -> DeleteReturn(rp)]
    /\ seen' = [seen EXCEPT ![p] = SeenBy(p, rp)]
    /\ pc' = [pc EXCEPT ![p] = "done"]

\* the backend applies the command of caller p and the call resumes with the reply,
\* or with an error when the reply is lost on the way back
BackendApply(p, lost) ==
    /\ pc[p] = "sent"
    /\ LET e == Exec(store, cmd[p], now) IN
        /\ store' = e.store
        /\ hist' = [hist EXCEPT ![req[p].id] = HistAfter(p, e)]
        /\ Resume(p, IF lost THEN ErrReply ELSE e.reply)
    /\ UNCHANGED <<now, req, cmd, ncmd>>

\* the command of caller p never reaches the backend and the call resumes with an error
BackendFail(p) ==
    /\ pc[p] = "sent"
    /\ Resume(p, ErrReply)
    /\ UNCHANGED <<store, now, req, cmd, ncmd, hist>>

\* the caller takes the result and may call again
Finish(p) ==
    /\ pc[p] = "done"
    /\ pc' = [pc EXCEPT ![p] = "idle"]
    /\ req' = [req EXCEPT ![p] = NoReq]
    /\ cmd' = [cmd EXCEPT ![p] = NoCmd]
    /\ ncmd' = [ncmd EXCEPT ![p] = 0]
    /\ reply' = [reply EXCEPT ![p] = NoReply]
    /\ result' = [result EXCEPT ![p] = Pending]
    /\ seen' = [seen EXCEPT ![p] = NoHist]
    /\ UNCHANGED <<store, now, hist>>

\* a second passes at the backend
Tick ==
    /\ now < MaxTime
    /\ now' = now + 1
    /\ store' = Expire(store, now + 1)
    /\ hist' = [i \in Ids |->
          IF hist[i].st = "live" /\ hist[i].exat <= now + 1
          THEN [st |-> "expired", rec |-> NoRecord, exat |-> 0]
          ELSE hist[i]]
    /\ UNCHANGED <<pc, req, cmd, ncmd, reply, result, seen>>

\* something other than the adapter writes bytes at a session key
ForeignWrite(i, b) ==
    /\ store' = [store EXCEPT ![Prefix \o i] =
          [present |-> TRUE, val |-> b, hasExp |-> FALSE, exat |-> 0]]
    /\ hist' = [hist EXCEPT ![i] = [st |-> "foreign", rec |-> NoRecord, exat |-> 0]]
    /\ UNCHANGED <<now, pc, req, cmd, ncmd, reply, result, seen>>

Next ==
    \/ \E p \in Callers, r \in Records : SaveCall(p, r)
    \/ \E p \in Callers, i \in Ids : LoadCall(p, i)
    \/ \E p \in Callers, i \in Ids : DeleteCall(p, i)
    \/ \E p \in Callers, lost \in BOOLEAN : BackendApply(p, lost)
    \/ \E p \in Callers : BackendFail(p)
    \/ \E p \in Callers : Finish(p)
    \/ Tick

NextForeign ==
    \/ Next
    \/ \E i \in Ids, b \in ForeignBytes : ForeignWrite(i, b)

\* the adapter is the only writer of session keys
Spec == Init /\ [][Next]_vars

\* other clients of the backend may write at session keys too
SpecForeign == Init /\ [][NextForeign]_vars


\* ------------------------------------------------------------- properties
Done(p, name) == pc[p] = "done" /\ req[p].name = name
SessionKey(i) == "tower_session:" \o i

\* C1: save-then-load.  A load whose GET is answered while the record r of the last
\* successful SET of its id is live (not expired at the backend, no delete or other
\* write applied since) returns Some(r), equal to r in id, data and expiry.
C1_SaveThenLoad ==
    \A p \in Callers :
        (Done(p, "load") /\ reply[p].ok /\ seen[p].st = "live")
            => result[p] = [kind |-> "Ok", some |-> TRUE, rec |-> seen[p].rec]

C1_Witness ==
    \E p \in Callers :
        /\ Done(p, "load") /\ reply[p].ok /\ seen[p].st = "live"
        /\ result[p].some /\ result[p].rec.id = req[p].id
        /\ result[p].rec.data = "y" /\ result[p].rec.expiry_date = MaxExpiry

\* C2: last write wins.  Whatever the interleaving of saves of one id, the backend
\* holds at the id's key exactly the bytes of the record of the SET applied last,
\* with that record's expiration and no other, and holds nothing there when no SET
\* is in force; a load that reads the key returns that record.
C2_LastWriteWins ==
    /\ \A i \in Ids :
          IF hist[i].st = "live"
          THEN store[SessionKey(i)] =
                  [present |-> TRUE, val |-> to_vec(hist[i].rec), hasExp |-> TRUE,
                   exat |-> unix_timestamp(hist[i].rec.expiry_date)]
          ELSE ~store[SessionKey(i)].present
    /\ \A p \in Callers :
          (Done(p, "load") /\ result[p].some)
              => /\ to_vec(result[p].rec) = reply[p].val
                 /\ unix_timestamp(result[p].rec.expiry_date) = seen[p].exat

C2_Witness ==
    \E p, q \in Callers :
        /\ p # q /\ Done(p, "save") /\ Done(q, "save")
        /\ result[p].kind = "Ok" /\ result[q].kind = "Ok"
        /\ req[p].id = req[q].id
        /\ req[p].rec.data # req[q].rec.data
        /\ req[p].rec.expiry_date < req[q].rec.expiry_date
        /\ hist[req[p].id].st = "live" /\ hist[req[p].id].rec = req[p].rec
        /\ store[SessionKey(req[p].id)].exat = req[p].rec.expiry_date

\* C3: the expiration save sends is the record's expiry in unix seconds, for every
\* expiry; for an expiry that is no non-negative number of seconds save sends
\* nothing and fails.
C3_ExpiryPassedThrough ==
    \A p \in Callers :
        (pc[p] # "idle" /\ req[p].name = "save" /\ CanEncode(req[p].rec))
            => LET t == unix_timestamp(req[p].rec.expiry_date) IN
               IF t >= 0
               THEN ncmd[p] = 1 /\ cmd[p].hasExat /\ cmd[p].exat = t
               ELSE ncmd[p] = 0 /\ (pc[p] = "done" => result[p].kind # "Ok")

\* C4: a load whose GET is answered with no value returns Ok(None), whether the id
\* was never saved, has expired or was deleted.
C4_AbsentIsNone ==
    \A p \in Callers :
        (Done(p, "load") /\ reply[p].ok /\ ~reply[p].some)
            => result[p] = [kind |-> "Ok", some |-> FALSE, rec |-> NoRecord]

C4_Witness ==
    \E p, q \in Callers :
        /\ Done(p, "load") /\ reply[p].ok /\ ~reply[p].some
        /\ seen[p].st = "expired" /\ result[p].kind = "Ok"
        /\ Done(q, "load") /\ reply[q].ok /\ ~reply[q].some
        /\ seen[q].st = "deleted" /\ result[q].kind = "Ok"

\* C5: a load whose GET is answered with bytes that do not decode to a record
\* returns a Decode error, never Ok(None) and never Ok(Some(_)).
C5_DecodeNotAbsence ==
    \A p \in Callers :
        /\ (Done(p, "load") /\ reply[p].ok /\ reply[p].some /\ ~CanDecode(reply[p].val))
              => result[p] = [kind |-> "Decode", some |-> FALSE, rec |-> NoRecord]
        /\ (Done(p, "load") /\ seen[p].st = "foreign") => result[p].kind = "Decode"

C5_Witness ==
    \E p \in Callers :
        /\ Done(p, "load") /\ seen[p].st = "foreign"
        /\ reply[p].val = <<FixArray3, 1>>
        /\ result[p].kind = "Decode"

\* C6: delete is idempotent.  Every DEL the backend answers makes delete return Ok
\* and leaves the id's key absent; when the key was absent already (never saved,
\* deleted or expired) the backend is left exactly as it was.
C6_DeleteIdempotent ==
    [][\A p \in Callers :
          (pc[p] = "sent" /\ req[p].name = "delete" /\ pc'[p] = "done" /\ reply'[p].ok)
              => /\ result'[p] = [kind |-> "Ok", some |-> FALSE, rec |-> NoRecord]
                 /\ ~store'[SessionKey(req[p].id)].present
                 /\ (~store[SessionKey(req[p].id)].present => store' = store)]_vars

C6_Witness ==
    \E p \in Callers :
        /\ Done(p, "delete") /\ reply[p].ok /\ reply[p].count = 0
        /\ seen[p].st = "deleted" /\ result[p].kind = "Ok"
        /\ ~store[SessionKey(req[p].id)].present

\* C7: key isolation.  Every command addresses the key "tower_session:<id>" of the
\* id the operation was called with; a step of the backend for one call changes no
\* other key, and the keys without the prefix keep their value and expiration.
C7_KeyIsolation ==
    /\ [](\A k \in ForeignKeys : store[k] = ForeignInit[k])
    /\ [](\A p \in Callers : ncmd[p] = 1 => cmd[p].key = SessionKey(req[p].id))
    /\ [][\A p \in Callers :
             (pc[p] = "sent" /\ pc'[p] = "done")
                 => \A k \in Keys \ {SessionKey(req[p].id)} : store'[k] = store[k]]_vars

C7_Witness ==
    \E p, q \in Callers :
        /\ Done(p, "save") /\ result[p].kind = "Ok" /\ req[p].id = "a"
        /\ Done(q, "delete") /\ result[q].kind = "Ok" /\ req[q].id = "b"
        /\ seen[q].st = "live"
        /\ store[SessionKey("a")].present /\ ~store[SessionKey("b")].present

\* C8 as stated: every call has issued exactly one command when it returns.
C8_ExactlyOneCommand ==
    \A p \in Callers : pc[p] = "done" => ncmd[p] = 1

ExpectedCommand(name) ==
    CASE name = "save" -> "SET" [] name = "load" -> "GET" [] name = "delete" -> "DEL"

\* C8 amended: a call issues at most one command and never a second one; it issues
\* none exactly when it is a save whose record cannot be serialised; the one command
\* is SET with EXAT for save, GET for load, DEL for delete.
C8_AtMostOneCommand ==
    \A p \in Callers :
        /\ ncmd[p] <= 1
        /\ pc[p] = "sent" => ncmd[p] = 1
        /\ pc[p] = "done" =>
              /\ ncmd[p] = 0 <=> (req[p].name = "save" /\ ~CanEncode(req[p].rec))
              /\ ncmd[p] = 0 => result[p].kind = "Encode"
        /\ ncmd[p] = 1 =>
              /\ cmd[p].name = ExpectedCommand(req[p].name)
              /\ cmd[p].hasExat <=> req[p].name = "save"

C8_Witness ==
    \E p, q \in Callers :
        /\ Done(p, "save") /\ ncmd[p] = 0 /\ result[p].kind = "Encode"
        /\ Done(q, "load") /\ ncmd[q] = 1 /\ result[q].kind = "Backend"

\* C9: every failure reaches the caller under the kind of its cause, and no failure
\* becomes a success: a failed command gives Backend, bytes that do not decode give
\* Decode, a record that cannot be serialised gives Encode, and nothing else does.
C9_ErrorKinds ==
    \A p \in Callers :
        pc[p] = "done" =>
            LET failed == ncmd[p] = 1 /\ ~reply[p].ok
                undecodable == /\ req[p].name = "load" /\ reply[p].ok
                               /\ reply[p].some /\ ~CanDecode(reply[p].val)
                unencodable == req[p].name = "save" /\ ~CanEncode(req[p].rec)
            IN  /\ result[p].kind \in {"Ok", "Backend", "Decode", "Encode"}
                /\ result[p].kind = "Backend" <=> failed
                /\ result[p].kind = "Decode" <=> undecodable
                /\ result[p].kind = "Encode" <=> unencodable
                /\ result[p].kind = "Ok" <=> ~(failed \/ undecodable \/ unencodable)
                /\ req[p].name = "delete" => result[p].kind \in {"Ok", "Backend"}
                /\ req[p].name = "load" => result[p].kind \in {"Ok", "Backend", "Decode"}
                /\ req[p].name = "save" => result[p].kind \in {"Ok", "Backend", "Encode"}

C9_Witness ==
    \E p, q \in Callers :
        /\ Done(p, "load") /\ result[p].kind = "Decode"
        /\ Done(q, "save") /\ result[q].kind = "Encode"

\* C10: no unexpired window.  With the adapter the only writer of session keys, a
\* session key that is present carries an expiration, and it is the expiry of the
\* record stored there, whose id is the id in the key.
C10_NoUnexpiredWindow ==
    \A i \in Ids :
        LET e == store[SessionKey(i)] IN
        e.present =>
            /\ e.hasExp
            /\ CanDecode(e.val)
            /\ unix_timestamp(from_slice(e.val).expiry_date) = e.exat
            /\ from_slice(e.val).id = i

C10_Witness ==
    /\ store[SessionKey("a")].present /\ store[SessionKey("b")].present
    /\ store[SessionKey("a")].exat # store[SessionKey("b")].exat
    /\ \E p \in Callers : pc[p] = "sent" /\ req[p].name = "save"
====
